---- MODULE Spec2Model ----
(***************************************************************************)
(* Processor virtualization activation protocol of barevisor               *)
(* (hvcore/src/hypervisor/mod.rs): virtualize_system publishes the shared  *)
(* hypervisor data once, then runs the per-processor work unit (capture    *)
(* registers, check presence, maybe switch stack and enter host::main) on  *)
(* every logical processor.                                                *)
(*                                                                         *)
(* Collaborators whose code is in other modules of the repository          *)
(* (platform_ops, switch_stack, host, the guest-side CPUID handler) are    *)
(* modelled from their documented contracts.                               *)
(***************************************************************************)
EXTENDS Integers, Sequences, FiniteSets, TLC

\* ------------------------------------------------------------------ bounds
\* Number of logical processors of the machine.
NumProcs == 2
\* Number of invocations of virtualize_system that are modelled.
MaxCalls == 2
\* How many times the guest-side CPUID handler may answer off-protocol on
\* one work unit that was started on a fresh processor (only in
\* SpecViolation).
MaxMismatch == 1

Procs == 1..NumProcs
Calls == 1..MaxCalls

\* ------------------------------------------------------------ value model
\* Option<T>: None is the empty tuple, Some(x) a one-element tuple.
None == << >>
Some(x) == <<x>>
\* Vec<T> of length n; the element values play no part in the protocol.
Vec(n) == [i \in 1..n |-> 0]

\* SharedData::default(): every field None.
DefaultSharedData ==
    [host_pt |-> None, host_idt |-> None, host_gdt_and_tss |-> None]

\* The SharedData values a caller may pass: the default, fully private
\* structures with one entry per processor, and one whose per-processor
\* vectors are one entry short (host_idt) and one entry long
\* (host_gdt_and_tss).
HvDataChoices ==
    { DefaultSharedData,
      [host_pt |-> Some("PagingStructures"),
       host_idt |-> Some(Vec(NumProcs)),
       host_gdt_and_tss |-> Some(Vec(NumProcs))],
      [host_pt |-> None,
       host_idt |-> Some(Vec(NumProcs - 1)),
       host_gdt_and_tss |-> Some(Vec(NumProcs + 1))] }

\* u32::from_ne_bytes on x86 (little endian).
from_ne_bytes(b) ==
    b[1] + b[2] * 256 + b[3] * 65536 + b[4] * 16777216

HV_CPUID_VENDOR_AND_MAX_FUNCTIONS == 1073741824
HV_CPUID_INTERFACE == 1073741825
\* b"Bare", b"viso", b"r!  "
OUR_HV_VENDOR_NAME_EBX == from_ne_bytes(<<66, 97, 114, 101>>)
OUR_HV_VENDOR_NAME_ECX == from_ne_bytes(<<118, 105, 115, 111>>)
OUR_HV_VENDOR_NAME_EDX == from_ne_bytes(<<114, 33, 32, 32>>)

\* A CPUID result (the three registers the detector reads).
CpuidResult(b, c, d) == [ebx |-> b, ecx |-> c, edx |-> d]
NoRegs == CpuidResult(-1, -1, -1)
Signature ==
    CpuidResult(OUR_HV_VENDOR_NAME_EBX, OUR_HV_VENDOR_NAME_ECX,
                OUR_HV_VENDOR_NAME_EDX)
\* Every result in which each register either carries its signature word or
\* is zero: the signature itself, and the seven results that miss at least
\* one word (the all-zero result among them).
Responses ==
    { CpuidResult(b, c, d) : b \in {OUR_HV_VENDOR_NAME_EBX, 0},
                             c \in {OUR_HV_VENDOR_NAME_ECX, 0},
                             d \in {OUR_HV_VENDOR_NAME_EDX, 0} }

\* Variant: the comparison of EDX is left out.
is_our_hypervisor_present_no_edx(regs) ==
    /\ regs.ebx = OUR_HV_VENDOR_NAME_EBX
    /\ regs.ecx = OUR_HV_VENDOR_NAME_ECX

\* The comparison of is_our_hypervisor_present on the registers CPUID gave.
is_our_hypervisor_present(regs) ==
    /\ regs.ebx = OUR_HV_VENDOR_NAME_EBX
    /\ regs.ecx = OUR_HV_VENDOR_NAME_ECX
    /\ regs.edx = OUR_HV_VENDOR_NAME_EDX

\* Variant: the interface leaf is queried instead of the vendor leaf.
PresenceLeafInterface == HV_CPUID_INTERFACE

\* The leaf is_our_hypervisor_present queries.
PresenceLeaf == HV_CPUID_VENDOR_AND_MAX_FUNCTIONS

\* Variant: the branch is never taken.
TakesActivationBranchNever(present) == FALSE

\* Variant: the branch is taken whatever the detector said.
TakesActivationBranchAlways(present) == TRUE

\* The condition of the `if` in the work unit: the activation branch is
\* taken when the hypervisor is not present.
TakesActivationBranch(present) == ~present

\* ------------------------------------------------------------------ state
VARIABLES
    callPc,          \* per invocation: position in virtualize_system
    hv_data,         \* per invocation: the SharedData argument
    apic_id_init,    \* whether apic_id::init has run
    SHARED_HV_DATA,  \* the spin::Once cell: None, or Some(published data)
    upc,             \* per invocation and processor: position of the work unit
    regs,            \* per work unit: the local `regs` of the detector
    present,         \* per work unit: the value of the last presence check
    trace,           \* per work unit: the protocol events so far
    virt,            \* per processor: runs as a guest of this hypervisor
    halted,          \* per processor: stopped by a fatal activation failure
    hostCfg,         \* per processor: SHARED_HV_DATA as read by host::main
    registers,       \* per work unit: the local `registers` (the snapshot)
    stack,           \* per work unit: the stack its stream executes on
    clobbered,       \* per work unit: host-side work ran on the original stack
    hostArg          \* per work unit: the snapshots handed to host::main

vars ==
    <<callPc, hv_data, apic_id_init, SHARED_HV_DATA, upc, regs, present,
      trace, virt, halted, hostCfg, registers, stack, clobbered, hostArg>>

callVars == <<callPc, hv_data, apic_id_init, SHARED_HV_DATA>>
procVars == <<virt, halted, hostCfg>>
snapVars == <<registers, stack, clobbered, hostArg>>

CallPcs ==
    {"idle", "apic", "publish", "fanout", "running", "joined", "returned"}
UnitPcs ==
    {"idle", "fresh", "captured", "checked", "in_if", "switched",
     "host_activating", "entry_returned", "halted", "after_if", "done"}

TypeOK ==
    /\ callPc \in [Calls -> CallPcs]
    /\ hv_data \in [Calls -> HvDataChoices]
    /\ apic_id_init \in BOOLEAN
    /\ SHARED_HV_DATA \in {None} \cup {Some(d) : d \in HvDataChoices}
    /\ upc \in [Calls -> [Procs -> UnitPcs]]
    /\ regs \in [Calls -> [Procs -> Responses \cup {NoRegs}]]
    /\ present \in [Calls -> [Procs -> BOOLEAN]]
    /\ virt \in [Procs -> BOOLEAN]
    /\ halted \in [Procs -> BOOLEAN]
    /\ hostCfg \in [Procs -> {None} \cup {Some(d) : d \in HvDataChoices}]
    /\ stack \in [Calls -> [Procs -> {"original", "hypervisor"}]]
    /\ clobbered \in [Calls -> [Procs -> BOOLEAN]]

\* Any partition of the processors into already virtualized and fresh ones;
\* nothing has been called yet.
Init ==
    /\ callPc = [c \in Calls |-> "idle"]
    /\ hv_data = [c \in Calls |-> DefaultSharedData]
    /\ apic_id_init = FALSE
    /\ SHARED_HV_DATA = None
    /\ upc = [c \in Calls |-> [p \in Procs |-> "idle"]]
    /\ regs = [c \in Calls |-> [p \in Procs |-> NoRegs]]
    /\ present = [c \in Calls |-> [p \in Procs |-> FALSE]]
    /\ trace = [c \in Calls |-> [p \in Procs |-> << >>]]
    /\ virt \in [Procs -> BOOLEAN]
    /\ halted = [p \in Procs |-> FALSE]
    /\ hostCfg = [p \in Procs |-> None]
    /\ registers = [c \in Calls |-> [p \in Procs |-> None]]
    /\ stack = [c \in Calls |-> [p \in Procs |-> "original"]]
    /\ clobbered = [c \in Calls |-> [p \in Procs |-> FALSE]]
    /\ hostArg = [c \in Calls |-> [p \in Procs |-> << >>]]

\* ------------------------------------------------------- trace helpers
RECURSIVE Count(_, _)
Count(s, e) ==
    IF s = << >> THEN 0
    ELSE (IF Head(s) = e THEN 1 ELSE 0) + Count(Tail(s), e)

RECURSIVE SumOver(_, _, _)
SumOver(cs, p, e) ==
    IF cs = {} THEN 0
    ELSE LET c == CHOOSE x \in cs : TRUE
         IN  Count(trace[c][p], e) + SumOver(cs \ {c}, p, e)

\* Calls of host::main made on processor p so far.
HostMainCalls(p) == SumOver(Calls, p, "activate")
\* Stacks allocated by jump_with_new_stack on processor p so far.
StackSwitches(p) == SumOver(Calls, p, "switch")

\* ---------------------------------------------------- virtualize_system
\* Entry of virtualize_system(hv_data): serial_logger::init and the first
\* log line.  `overlap` says whether the caller may enter while another
\* invocation is still in progress.
VirtualizeSystemEnter(c, d, overlap) ==
    /\ callPc[c] = "idle"
    /\ IF c = 1 THEN TRUE ELSE callPc[c - 1] # "idle"
    /\ overlap \/ \A o \in Calls \ {c} : callPc[o] \in {"idle", "returned"}
    /\ callPc' = [callPc EXCEPT ![c] = "apic"]
    /\ hv_data' = [hv_data EXCEPT ![c] = d]
    /\ UNCHANGED <<apic_id_init, SHARED_HV_DATA, upc, regs, present, trace>>
    /\ UNCHANGED procVars
    /\ UNCHANGED snapVars

\* Variant: the call of apic_id::init is left out.
ApicIdInitOmitted(c) ==
    /\ callPc[c] = "apic"
    /\ callPc' = [callPc EXCEPT ![c] = "publish"]
    /\ UNCHANGED <<hv_data, apic_id_init, SHARED_HV_DATA, upc, regs, present, trace>>
    /\ UNCHANGED procVars
    /\ UNCHANGED snapVars

\* apic_id::init()
ApicIdInit(c) ==
    /\ callPc[c] = "apic"
    /\ apic_id_init' = TRUE
    /\ callPc' = [callPc EXCEPT ![c] = "publish"]
    /\ UNCHANGED <<hv_data, SHARED_HV_DATA, upc, regs, present, trace>>
    /\ UNCHANGED procVars
    /\ UNCHANGED snapVars

\* Variant: a plain store, every caller overwrites the cell.
call_once_overwrite(cell, value) == Some(value)

\* spin::Once::call_once: the first caller's value is stored, a later call
\* leaves the cell as it is.
call_once(cell, value) == IF cell = None THEN Some(value) ELSE cell

\* Variant: publishing into a cell that is already set stops the
\* invocation.
PublishFailsWhenSet(c) ==
    /\ callPc[c] = "publish"
    /\ SHARED_HV_DATA = None
    /\ SHARED_HV_DATA' = call_once(SHARED_HV_DATA, hv_data[c])
    /\ callPc' = [callPc EXCEPT ![c] = "fanout"]
    /\ UNCHANGED <<hv_data, apic_id_init, upc, regs, present, trace>>
    /\ UNCHANGED procVars
    /\ UNCHANGED snapVars

\* let _ = SHARED_HV_DATA.call_once(|| hv_data);
Publish(c) ==
    /\ callPc[c] = "publish"
    /\ SHARED_HV_DATA' = call_once(SHARED_HV_DATA, hv_data[c])
    /\ callPc' = [callPc EXCEPT ![c] = "fanout"]
    /\ UNCHANGED <<hv_data, apic_id_init, upc, regs, present, trace>>
    /\ UNCHANGED procVars
    /\ UNCHANGED snapVars

\* Variant: the fan-out does not wait for the publish statement.
AtFanOutBeforePublish(c) == callPc[c] \in {"publish", "fanout"}

\* The position from which virtualize_system calls run_on_all_processors.
AtFanOut(c) == callPc[c] = "fanout"

\* platform_ops::get().run_on_all_processors(closure): the work unit is
\* started once on every logical processor.
RunOnAllProcessorsStart(c) ==
    /\ AtFanOut(c)
    /\ callPc' = [callPc EXCEPT ![c] = "running"]
    /\ upc' = [upc EXCEPT ![c] = [p \in Procs |-> "fresh"]]
    /\ UNCHANGED <<hv_data, apic_id_init, SHARED_HV_DATA, regs, present, trace>>
    /\ UNCHANGED procVars
    /\ UNCHANGED snapVars

\* Variant: the fan-out returns once some processor has completed.
SomeProcessorCompleted(c) == \E p \in Procs : upc[c][p] = "done"

\* When run_on_all_processors may return to its caller: every processor has
\* completed the work unit.
AllProcessorsCompleted(c) == \A p \in Procs : upc[c][p] = "done"

\* run_on_all_processors returns.
RunOnAllProcessorsJoin(c) ==
    /\ callPc[c] = "running"
    /\ AllProcessorsCompleted(c)
    /\ callPc' = [callPc EXCEPT ![c] = "joined"]
    /\ UNCHANGED <<hv_data, apic_id_init, SHARED_HV_DATA, upc, regs, present, trace>>
    /\ UNCHANGED procVars
    /\ UNCHANGED snapVars

\* log::info!("Virtualized the all processors"); return.
VirtualizeSystemReturn(c) ==
    /\ callPc[c] = "joined"
    /\ callPc' = [callPc EXCEPT ![c] = "returned"]
    /\ UNCHANGED <<hv_data, apic_id_init, SHARED_HV_DATA, upc, regs, present, trace>>
    /\ UNCHANGED procVars
    /\ UNCHANGED snapVars

\* ------------------------------------------------------- the work unit
Runs(c, p) == ~halted[p]

Step(c, p, from, to, ev) ==
    /\ Runs(c, p)
    /\ upc[c][p] = from
    /\ upc' = [upc EXCEPT ![c][p] = to]
    /\ trace' = [trace EXCEPT ![c][p] = @ \o ev]

\* Variant: the snapshot is taken inside the `if`, after the presence check.
ResumePointInsideIf == "in_if"

\* The instruction pointer a snapshot records: the statement that follows
\* the capture_current call, which is the presence check.
ResumePoint == "captured"

\* The snapshot capture_current returns on processor p in work unit (c, p):
\* the resume point and the stack pointer of the calling stream.
Snapshot(c, p) ==
    [owner |-> <<c, p>>, rip |-> ResumePoint, rsp |-> stack[c][p]]

\* let registers = Registers::capture_current();
CaptureCurrent(c, p) ==
    /\ Step(c, p, "fresh", "captured", <<"capture">>)
    /\ registers' = [registers EXCEPT ![c][p] = Some(Snapshot(c, p))]
    /\ UNCHANGED <<regs, present, stack, clobbered, hostArg>>
    /\ UNCHANGED callVars
    /\ UNCHANGED procVars

\* What CPUID may return for `leaf` on processor p.  Natively the
\* hypervisor leaves carry one of `natives`, never the signature; as a guest
\* of this hypervisor the VM-exit handler answers the vendor leaf with the
\* signature (with `faulty`, it may break that contract, until the work
\* unit has seen MaxMismatch + 1 negative answers).
CpuidResults(c, p, leaf, faulty, natives) ==
    IF leaf # HV_CPUID_VENDOR_AND_MAX_FUNCTIONS THEN {CpuidResult(0, 0, 0)}
    ELSE IF ~virt[p] THEN natives \ {Signature}
    ELSE IF faulty /\ Count(trace[c][p], "presence_false") <= MaxMismatch
         THEN Responses
    ELSE {Signature}

\* if !is_our_hypervisor_present(): the CPUID query and the comparison.
PresenceCheck(c, p, faulty, natives) ==
    /\ \E r \in CpuidResults(c, p, PresenceLeaf, faulty, natives) :
         /\ regs' = [regs EXCEPT ![c][p] = r]
         /\ present' = [present EXCEPT ![c][p] = is_our_hypervisor_present(r)]
         /\ Step(c, p, "captured", "checked",
                 <<IF is_our_hypervisor_present(r)
                   THEN "presence_true" ELSE "presence_false">>)
    /\ UNCHANGED callVars
    /\ UNCHANGED procVars
    /\ UNCHANGED snapVars

\* Variant: the completion line is logged inside the `if` only, the path
\* around the `if` ends the closure without it.
BranchPresentNoLog(c, p) ==
    /\ ~TakesActivationBranch(present[c][p])
    /\ Step(c, p, "checked", "done", << >>)
    /\ regs' = [regs EXCEPT ![c][p] = NoRegs]
    /\ present' = [present EXCEPT ![c][p] = FALSE]
    /\ UNCHANGED callVars
    /\ UNCHANGED procVars
    /\ UNCHANGED snapVars

\* The branch is not taken: control goes past the `if`.
BranchPresent(c, p) ==
    /\ ~TakesActivationBranch(present[c][p])
    /\ Step(c, p, "checked", "after_if", << >>)
    /\ regs' = [regs EXCEPT ![c][p] = NoRegs]
    /\ present' = [present EXCEPT ![c][p] = FALSE]
    /\ UNCHANGED callVars
    /\ UNCHANGED procVars
    /\ UNCHANGED snapVars

\* Variant: the branch calls host::main(&registers) itself, without
\* switch_stack.
BranchAbsentDirectCall(c, p) ==
    /\ TakesActivationBranch(present[c][p])
    /\ Step(c, p, "checked", "switched", << >>)
    /\ regs' = [regs EXCEPT ![c][p] = NoRegs]
    /\ present' = [present EXCEPT ![c][p] = FALSE]
    /\ UNCHANGED callVars
    /\ UNCHANGED procVars
    /\ UNCHANGED snapVars

\* The branch is taken: log "Virtualizing the current processor" and call
\* switch_stack::jump_with_new_stack(host::main, &registers).
BranchAbsent(c, p) ==
    /\ TakesActivationBranch(present[c][p])
    /\ Step(c, p, "checked", "in_if", << >>)
    /\ regs' = [regs EXCEPT ![c][p] = NoRegs]
    /\ present' = [present EXCEPT ![c][p] = FALSE]
    /\ UNCHANGED callVars
    /\ UNCHANGED procVars
    /\ UNCHANGED snapVars

\* log::info!("Virtualized the current processor"); the closure returns.
LogVirtualized(c, p) ==
    /\ Step(c, p, "after_if", "done", <<"virtualized">>)
    /\ UNCHANGED <<regs, present>>
    /\ UNCHANGED callVars
    /\ UNCHANGED procVars
    /\ UNCHANGED snapVars

\* ------------------------------------------- switch_stack and host::main
\* Variant: the entry is run on the stack of the caller.
JumpStackOfCaller == "original"

\* The stack jump_with_new_stack runs the entry on: one it allocates.
JumpStack == "hypervisor"

\* jump_with_new_stack: a new stack is allocated and execution moves onto it.
JumpWithNewStack(c, p) ==
    /\ Step(c, p, "in_if", "switched", <<"switch">>)
    /\ stack' = [stack EXCEPT ![c][p] = JumpStack]
    /\ UNCHANGED <<regs, present, registers, clobbered, hostArg>>
    /\ UNCHANGED callVars
    /\ UNCHANGED procVars

\* Variant: every work unit of an invocation passes the `registers` of the
\* unit of processor 1 (one slot shared by the processors).
PassedSnapshotShared(c, p) == registers[c][1]

\* The second argument of jump_with_new_stack: &registers, the local of
\* this work unit.
PassedSnapshot(c, p) == registers[c][p]

\* Host-side activation work of unit (c, p) writes to the stack it runs on.
HostWork(c, p) ==
    clobbered' = [clobbered EXCEPT ![c][p] = @ \/ stack[c][p] = "original"]

\* host::main(registers) starts on the new stack and reads SHARED_HV_DATA.
HostMainEnter(c, p) ==
    /\ Step(c, p, "switched", "host_activating", <<"activate">>)
    /\ hostCfg' = [hostCfg EXCEPT ![p] = SHARED_HV_DATA]
    /\ hostArg' = [hostArg EXCEPT ![c][p] = Append(@, PassedSnapshot(c, p))]
    /\ HostWork(c, p)
    /\ UNCHANGED <<regs, present, virt, halted, registers, stack>>
    /\ UNCHANGED callVars

\* VM-entry: the processor becomes a guest; the guest stream resumes at the
\* instruction pointer and on the stack of the snapshot host::main was
\* given, while the host stream stays in the hypervisor.
HostMainVmEntry(c, p) ==
    LET arg == hostArg[c][p][Len(hostArg[c][p])]
    IN  /\ upc[c][p] = "host_activating"
        /\ arg # None
        /\ Step(c, p, "host_activating", arg[1].rip, <<"fork">>)
        /\ stack' = [stack EXCEPT ![c][p] = arg[1].rsp]
        /\ virt' = [virt EXCEPT ![p] = TRUE]
        /\ HostWork(c, p)
        /\ UNCHANGED <<regs, present, halted, hostCfg, registers, hostArg>>
        /\ UNCHANGED callVars

\* host::main gives up (unsupported hardware, no resources) and returns to
\* the code that called it on the new stack.
HostMainReturn(c, p) ==
    /\ Step(c, p, "host_activating", "entry_returned", <<"entry_return">>)
    /\ HostWork(c, p)
    /\ UNCHANGED <<regs, present, registers, stack, hostArg>>
    /\ UNCHANGED callVars
    /\ UNCHANGED procVars

\* Variant: jump_with_new_stack hands the return on to its caller.
AfterEntryReturnToCaller == "after_if"

\* Where control goes when the entry returned: jump_with_new_stack never
\* comes back onto the original stack; the failure is fatal.
AfterEntryReturn == "halted"

EntryReturned(c, p) ==
    /\ Step(c, p, "entry_returned", AfterEntryReturn, << >>)
    /\ halted' = [halted EXCEPT ![p] = (AfterEntryReturn = "halted")]
    /\ UNCHANGED <<regs, present, virt, hostCfg>>
    /\ UNCHANGED callVars
    /\ UNCHANGED snapVars

\* ------------------------------------------------------- specifications
CallStep(overlap) ==
    \E c \in Calls :
        \/ \E d \in HvDataChoices : VirtualizeSystemEnter(c, d, overlap)
        \/ ApicIdInit(c)
        \/ Publish(c)
        \/ RunOnAllProcessorsStart(c)
        \/ RunOnAllProcessorsJoin(c)
        \/ VirtualizeSystemReturn(c)

UnitStep(faulty, natives) ==
    \E c \in Calls, p \in Procs :
        \/ CaptureCurrent(c, p)
        \/ PresenceCheck(c, p, faulty, natives)
        \/ BranchPresent(c, p)
        \/ BranchAbsent(c, p)
        \/ LogVirtualized(c, p)
        \/ JumpWithNewStack(c, p)
        \/ HostMainEnter(c, p)
        \/ HostMainVmEntry(c, p)
        \/ HostMainReturn(c, p)
        \/ EntryReturned(c, p)

\* Successive invocations; the CPUID handler keeps its contract.
Next == CallStep(FALSE) \/ UnitStep(FALSE, Responses)
Spec == Init /\ [][Next]_vars

\* Invocations may overlap; a fresh processor answers the vendor leaf with
\* zeroes.
NextConc == CallStep(TRUE) \/ UnitStep(FALSE, {CpuidResult(0, 0, 0)})
SpecConc == Init /\ [][NextConc]_vars

\* Successive invocations; the guest-side CPUID handler may answer a
\* presence query off-protocol.
NextViolation == CallStep(FALSE) \/ UnitStep(TRUE, Responses)
SpecViolation == Init /\ [][NextViolation]_vars

\* Successive invocations in which host::main succeeds on every processor
\* and the CPUID handler keeps its contract.  Every invocation that was
\* entered keeps executing, and every processor keeps executing the work
\* unit it was handed.
LiveCall(c) ==
    \/ ApicIdInit(c)
    \/ Publish(c)
    \/ RunOnAllProcessorsStart(c)
    \/ RunOnAllProcessorsJoin(c)
    \/ VirtualizeSystemReturn(c)

LiveUnit(c, p) ==
    \/ CaptureCurrent(c, p)
    \/ PresenceCheck(c, p, FALSE, Responses)
    \/ BranchPresent(c, p)
    \/ BranchAbsent(c, p)
    \/ LogVirtualized(c, p)
    \/ JumpWithNewStack(c, p)
    \/ HostMainEnter(c, p)
    \/ HostMainVmEntry(c, p)

NextLive ==
    \/ \E c \in Calls, d \in HvDataChoices : VirtualizeSystemEnter(c, d, FALSE)
    \/ \E c \in Calls : LiveCall(c)
    \/ \E c \in Calls, p \in Procs : LiveUnit(c, p)

SpecLive ==
    /\ Init
    /\ [][NextLive]_vars
    /\ \A c \in Calls : WF_vars(LiveCall(c))
    /\ \A c \in Calls, p \in Procs : WF_vars(LiveUnit(c, p))

\* ------------------------------------------------------------- properties
IsPrefix(s, t) == Len(s) <= Len(t) /\ SubSeq(t, 1, Len(s)) = s

Units == Calls \X Procs

\* VM-entries made on processor p so far.
VmEntries(p) == SumOver(Calls, p, "fork")
\* Processor p was not virtualized when the model started.
WasFresh(p) == ~virt[p] \/ VmEntries(p) > 0

\* The first presence check of the work unit found the hypervisor present.
FoundPresentAtFirstCheck(c, p) ==
    IsPrefix(<<"capture", "presence_true">>, trace[c][p])

\* C1: a work unit whose first presence check returns true makes no call of
\* host::main and no stack switch, ends with the completion line only, and
\* the processor stays virtualized.
C1_IdempotentWhenPresent ==
    \A c \in Calls, p \in Procs :
        FoundPresentAtFirstCheck(c, p) =>
            /\ Count(trace[c][p], "switch") = 0
            /\ Count(trace[c][p], "activate") = 0
            /\ IsPrefix(trace[c][p], <<"capture", "presence_true", "virtualized">>)
            /\ virt[p]
            /\ upc[c][p] \in {"checked", "after_if", "done"}

\* The second invocation has completed on a processor the first invocation
\* virtualized.
C1_Witness ==
    \E p \in Procs :
        /\ Count(trace[1][p], "fork") = 1
        /\ upc[2][p] = "done"
        /\ trace[2][p] = <<"capture", "presence_true", "virtualized">>

\* C2: over successive invocations host::main is entered at most once on a
\* processor, never on a processor that was already virtualized, exactly
\* once on every fresh processor by the time an invocation has returned,
\* and no stack switch or VM-entry is repeated on a processor.
C2_ActivatedExactlyOnce ==
    \A p \in Procs :
        /\ HostMainCalls(p) <= 1
        /\ StackSwitches(p) <= 1
        /\ VmEntries(p) <= 1
        /\ ~WasFresh(p) => HostMainCalls(p) = 0 /\ StackSwitches(p) = 0
        /\ (\E c \in Calls : callPc[c] \in {"joined", "returned"}) /\ WasFresh(p)
              => HostMainCalls(p) = 1 /\ StackSwitches(p) = 1 /\ VmEntries(p) = 1

\* Two invocations have returned on a machine that started with one fresh
\* and one virtualized processor.
C2_Witness ==
    /\ \A c \in Calls : c <= 2 => callPc[c] = "returned"
    /\ \E p, q \in Procs :
          /\ WasFresh(p) /\ HostMainCalls(p) = 1
          /\ ~WasFresh(q) /\ HostMainCalls(q) = 0

\* u32::to_ne_bytes on x86 (little endian).
to_ne_bytes(w) ==
    <<w % 256, (w \div 256) % 256, (w \div 65536) % 256, w \div 16777216>>

\* "Barevisor!  "
SignatureBytes == <<66, 97, 114, 101, 118, 105, 115, 111, 114, 33, 32, 32>>

\* The twelve bytes a CPUID result carries in EBX, ECX, EDX.
VendorBytes(r) == to_ne_bytes(r.ebx) \o to_ne_bytes(r.ecx) \o to_ne_bytes(r.edx)

\* A step that is the presence check of work unit (c, p).
IsPresenceCheck(c, p) == upc[c][p] = "captured" /\ upc'[c][p] = "checked"

\* C3: the detector answers true exactly when EBX, ECX, EDX of the vendor
\* leaf spell "Barevisor!  ", false as soon as one word differs, and the
\* check changes nothing but the work unit's own position and locals.
C3_DetectorExact ==
    /\ [](\A c \in Calls, p \in Procs :
            upc[c][p] = "checked" =>
                /\ present[c][p] <=> (VendorBytes(regs[c][p]) = SignatureBytes)
                /\ ~present[c][p] <=>
                      \/ regs[c][p].ebx # OUR_HV_VENDOR_NAME_EBX
                      \/ regs[c][p].ecx # OUR_HV_VENDOR_NAME_ECX
                      \/ regs[c][p].edx # OUR_HV_VENDOR_NAME_EDX)
    /\ [][\A c \in Calls, p \in Procs :
            IsPresenceCheck(c, p) =>
                /\ UNCHANGED <<callPc, hv_data, apic_id_init, SHARED_HV_DATA>>
                /\ UNCHANGED <<virt, halted, hostCfg>>
                /\ \A u \in Units \ {<<c, p>>} :
                      /\ upc'[u[1]][u[2]] = upc[u[1]][u[2]]
                      /\ trace'[u[1]][u[2]] = trace[u[1]][u[2]]]_vars

\* A check whose answer carries the first two words and a wrong third one
\* has returned false.
C3_Witness ==
    \E c \in Calls, p \in Procs :
        /\ upc[c][p] = "checked"
        /\ regs[c][p] =
              CpuidResult(OUR_HV_VENDOR_NAME_EBX, OUR_HV_VENDOR_NAME_ECX, 0)
        /\ ~present[c][p]

\* Invocation c has executed the publish statement.
PastPublish(c) == callPc[c] \in {"fanout", "running", "joined", "returned"}

\* C4: with overlapping invocations that publish different data, the cell
\* holds the data of one invocation that has published, every invocation
\* that has published finds the cell set, host::main on every processor
\* reads the value the cell holds, and once set the cell never changes.
C4_SingleInitialization ==
    /\ [](/\ SHARED_HV_DATA # None =>
               \E c \in Calls : PastPublish(c) /\ SHARED_HV_DATA = Some(hv_data[c])
          /\ \A c \in Calls : PastPublish(c) => SHARED_HV_DATA # None
          /\ \A p \in Procs :
               HostMainCalls(p) > 0 =>
                   hostCfg[p] # None /\ hostCfg[p] = SHARED_HV_DATA)
    /\ [][SHARED_HV_DATA # None => SHARED_HV_DATA' = SHARED_HV_DATA]_vars

\* Both invocations have published while the other was in progress, with
\* different data; the second one's data was kept and host::main read it.
C4_Witness ==
    /\ hv_data[1] # hv_data[2]
    /\ callPc[1] = "running" /\ callPc[2] = "running"
    /\ SHARED_HV_DATA = Some(hv_data[2])
    /\ \E p \in Procs : HostMainCalls(p) > 0 /\ hostCfg[p] = Some(hv_data[2])

\* The work unit (c, p) has left FRESH.
LeftFresh(c, p) == upc[c][p] \notin {"idle", "fresh"}

\* C5: whenever a work unit has been handed to a processor, and so whenever
\* one has left FRESH, SHARED_HV_DATA is initialized.
C5_PublishedBeforeFanOut ==
    \A c \in Calls, p \in Procs :
        upc[c][p] # "idle" => SHARED_HV_DATA # None /\ PastPublish(c)

\* A processor has captured its registers and nothing else yet.
C5_Witness ==
    \E p \in Procs :
        /\ upc[1][p] = "captured"
        /\ trace[1][p] = <<"capture">>
        /\ SHARED_HV_DATA = Some(hv_data[1])

\* The per-processor vectors of d, where present, have one entry per
\* logical processor.
ShapeOK(d) ==
    /\ d.host_idt # None => Len(d.host_idt[1]) = NumProcs
    /\ d.host_gdt_and_tss # None => Len(d.host_gdt_and_tss[1]) = NumProcs

\* C6: no processor leaves FRESH while the published SharedData has a
\* per-processor vector whose length differs from the processor count.
C6_ShapeCheckedBeforeFanOut ==
    \A c \in Calls, p \in Procs :
        LeftFresh(c, p) /\ SHARED_HV_DATA # None => ShapeOK(SHARED_HV_DATA[1])

\* The events of a work unit that virtualizes its processor.
EndToEnd ==
    <<"capture", "presence_false", "switch", "activate", "fork",
      "presence_true", "virtualized">>

\* The first presence check of the work unit found no hypervisor.
FoundAbsentAtFirstCheck(c, p) ==
    IsPrefix(<<"capture", "presence_false">>, trace[c][p])

\* C7: on a fresh processor the work unit goes through capture, presence
\* false, stack switch, host activation, VM-entry, presence true and
\* completion in this order (up to the VM-entry when host::main fails), and
\* when it has completed exactly one completion line was logged.
C7_EndToEndOrder ==
    \A c \in Calls, p \in Procs :
        FoundAbsentAtFirstCheck(c, p) =>
            /\ \/ IsPrefix(trace[c][p], EndToEnd)
               \/ trace[c][p] = SubSeq(EndToEnd, 1, 4) \o <<"entry_return">>
            /\ Count(trace[c][p], "fork") = 1 => IsPrefix(trace[c][p], EndToEnd)
            /\ upc[c][p] = "done" =>
                  trace[c][p] = EndToEnd /\ Count(trace[c][p], "virtualized") = 1

\* The first invocation, with the default SharedData, has completed on a
\* processor that was fresh.
C7_Witness ==
    \E p \in Procs :
        /\ hv_data[1] = DefaultSharedData
        /\ SHARED_HV_DATA = Some(DefaultSharedData)
        /\ upc[1][p] = "done"
        /\ trace[1][p] = EndToEnd

RetriedAfterMismatch(t) ==
    \E i, j, k \in 1..Len(t) :
        /\ i < j /\ j < k
        /\ t[i] = "fork" /\ t[j] = "presence_false" /\ t[k] = "switch"

\* C9: after a VM-entry, a presence check that misses the signature is not
\* followed by a second stack switch or a second call of host::main.
C9_NoRetryAfterMismatch ==
    \A c \in Calls, p \in Procs :
        /\ ~RetriedAfterMismatch(trace[c][p])
        /\ Count(trace[c][p], "fork") > 0 => Count(trace[c][p], "activate") <= 1

\* C10: when run_on_all_processors has returned to virtualize_system, every
\* processor has completed the work unit of that invocation and is
\* virtualized.
C10_Barrier ==
    \A c \in Calls :
        callPc[c] \in {"joined", "returned"} =>
            \A p \in Procs : upc[c][p] = "done" /\ virt[p] /\ ~halted[p]

\* The first invocation has returned after virtualizing every processor
\* itself.
C10_Witness ==
    /\ callPc[1] = "returned"
    /\ \A p \in Procs : Count(trace[1][p], "fork") = 1

\* The positions of a work unit's stream between the stack switch and the
\* VM-entry (the host stream).
HostStreamPcs == {"switched", "host_activating", "entry_returned", "halted"}

\* C11: between the stack switch and the VM-entry a work unit's stream runs
\* on the hypervisor's stack and everywhere else on the original one, no
\* host-side activation work ever runs on the original stack, and a
\* snapshot records the original stack, on which the guest resumes.
C11_StackIsolation ==
    \A c \in Calls, p \in Procs :
        /\ upc[c][p] \in HostStreamPcs => stack[c][p] = "hypervisor"
        /\ upc[c][p] \notin HostStreamPcs => stack[c][p] = "original"
        /\ ~clobbered[c][p]
        /\ registers[c][p] # None => registers[c][p][1].rsp = "original"

\* A processor was activated on the hypervisor's stack and its guest has
\* completed the work unit on the untouched original stack.
C11_Witness ==
    \E c \in Calls, p \in Procs :
        /\ Count(trace[c][p], "fork") = 1
        /\ upc[c][p] = "done"
        /\ stack[c][p] = "original"
        /\ ~clobbered[c][p]

PresenceEvents == {"presence_true", "presence_false"}

\* C12: in every work unit the capture is the first event and happens once,
\* a presence check directly follows the capture or a VM-entry, the guest
\* stream that a VM-entry starts stands right after the capture, before
\* the presence check, and every stack switch directly follows a presence
\* check that returned false.
C12_CaptureBeforeCheck ==
    \A c \in Calls, p \in Procs :
        LET t == trace[c][p]
        IN  /\ t # << >> => t[1] = "capture"
            /\ Count(t, "capture") <= 1
            /\ \A i \in 1..Len(t) :
                  /\ t[i] \in PresenceEvents =>
                        i > 1 /\ t[i - 1] \in {"capture", "fork"}
                  /\ t[i] = "fork" /\ i < Len(t) => t[i + 1] \in PresenceEvents
                  /\ t[i] = "fork" /\ i = Len(t) => upc[c][p] = "captured"
                  /\ t[i] = "switch" => i > 1 /\ t[i - 1] = "presence_false"

\* A guest stream has evaluated the presence check again after its
\* VM-entry, before the next stack switch.
C12_Witness ==
    \E c \in Calls, p \in Procs :
        trace[c][p] =
            <<"capture", "presence_false", "switch", "activate", "fork",
              "presence_false", "switch">>

\* The snapshots handed to host::main by work unit (c, p), as a set.
Handed(c, p) == {hostArg[c][p][i] : i \in 1..Len(hostArg[c][p])}

\* C13: the snapshot of a work unit is the one its own run captured; a
\* unit hands a snapshot to host::main at most once, and then its own one,
\* on its own processor; a unit that found the hypervisor present hands
\* none; a unit that found it absent and entered host::main handed exactly
\* its own; and no snapshot reaches host::main from two work units.
C13_SnapshotLifecycle ==
    \A c \in Calls, p \in Procs :
        /\ registers[c][p] # None <=> Count(trace[c][p], "capture") = 1
        /\ registers[c][p] # None => registers[c][p][1].owner = <<c, p>>
        /\ Len(hostArg[c][p]) <= 1
        /\ \A a \in Handed(c, p) : a # None /\ a[1].owner = <<c, p>>
        /\ FoundPresentAtFirstCheck(c, p) => hostArg[c][p] = << >>
        /\ Count(trace[c][p], "activate") > 0 =>
              /\ FoundAbsentAtFirstCheck(c, p)
              /\ hostArg[c][p] = <<registers[c][p]>>
        /\ \A u \in Units \ {<<c, p>>} :
              Handed(c, p) \cap Handed(u[1], u[2]) = {}

\* On one processor the first invocation handed its snapshot to host::main
\* and completed, and the second invocation captured one and completed
\* without handing it on.
C13_Witness ==
    \E p \in Procs :
        /\ upc[1][p] = "done" /\ hostArg[1][p] = <<registers[1][p]>>
        /\ upc[2][p] = "done" /\ registers[2][p] # None
        /\ hostArg[2][p] = << >>

\* C14: when the work unit runs on every processor, host::main succeeds
\* and the CPUID handler answers with the signature, every invocation that
\* was entered eventually returns with every processor virtualized and
\* every work unit completed.
C14_EventuallyVirtualized ==
    \A c \in Calls :
        (callPc[c] # "idle") ~>
            (/\ callPc[c] = "returned"
             /\ \A p \in Procs : virt[p] /\ upc[c][p] = "done")

\* Both invocations have returned, every processor is virtualized, and the
\* first invocation virtualized at least one of them.
C14_Witness ==
    /\ callPc[1] = "returned" /\ callPc[2] = "returned"
    /\ \A p \in Procs : virt[p] /\ upc[2][p] = "done"
    /\ \E p \in Procs : Count(trace[1][p], "fork") = 1

\* C15: apic_id::init has run whenever SHARED_HV_DATA is set, whenever an
\* invocation has executed the publish statement, and whenever a work unit
\* has been handed to a processor.
C15_TopologyBeforeFanOut ==
    /\ SHARED_HV_DATA # None => apic_id_init
    /\ \A c \in Calls :
          /\ callPc[c] \notin {"idle", "apic"} => apic_id_init
          /\ \A p \in Procs : upc[c][p] # "idle" => apic_id_init

\* A processor has evaluated the presence check with the topology mapping
\* initialized and the data published.
C15_Witness ==
    \E p \in Procs :
        /\ upc[1][p] = "checked"
        /\ apic_id_init
        /\ SHARED_HV_DATA # None

\* The data invocation c passed was not the data that was kept.
Discarded(c) == PastPublish(c) /\ SHARED_HV_DATA # Some(hv_data[c])

\* C16: an invocation can always execute its publish statement and start
\* its fan-out, whatever the cell holds; its fan-out hands a work unit to
\* every processor; a publish into a cell that is set leaves the cell as it
\* is; and a processor on which a work unit of an invocation whose data was
\* discarded entered host::main has read the data that was kept, not the
\* data of that invocation.
C16_LaterDataDiscarded ==
    /\ [](\A c \in Calls :
            /\ callPc[c] = "publish" => ENABLED Publish(c)
            /\ callPc[c] = "fanout" => ENABLED RunOnAllProcessorsStart(c)
            /\ callPc[c] \in {"running", "joined", "returned"} =>
                  \A p \in Procs : upc[c][p] # "idle"
            /\ Discarded(c) =>
                  \A p \in Procs :
                      Count(trace[c][p], "activate") > 0 =>
                          /\ hostCfg[p] = SHARED_HV_DATA
                          /\ hostCfg[p] # Some(hv_data[c]))
    /\ [][\A c \in Calls :
            callPc[c] = "publish" /\ callPc'[c] = "fanout" /\ SHARED_HV_DATA # None
                => SHARED_HV_DATA' = SHARED_HV_DATA]_vars

\* The second invocation passed other data than the first, whose data was
\* kept, and virtualized a processor the first had not reached; host::main
\* read the first invocation's data there.
C16_Witness ==
    /\ hv_data[1] # hv_data[2]
    /\ SHARED_HV_DATA = Some(hv_data[1])
    /\ Discarded(2)
    /\ \E p \in Procs :
          /\ Count(trace[2][p], "fork") = 1
          /\ Count(trace[1][p], "activate") = 0
          /\ hostCfg[p] = Some(hv_data[1])

\* C17: across overlapping invocations, host::main is entered and the
\* stack is switched at most once on each processor.
C17_AtMostOnceAcrossInvocations ==
    \A p \in Procs : HostMainCalls(p) <= 1 /\ StackSwitches(p) <= 1

====
